---- MODULE Spec2Model ----
(***************************************************************************)
(* DRG grouper (src/src/main.rs): case record, rule-type predicates,       *)
(* which_adrg (MDC walk + ADRG dispatch + QY reclassification) and         *)
(* process_drg (severity refinement).                                      *)
(*                                                                         *)
(* Codes are strings; Rust slices name[a..=b] are SubSeq(name, a+1, b+1).  *)
(* A Rust panic (HashMap index on a missing key, unwrap on None) is the    *)
(* value PANIC, propagated in the evaluation order of the source.          *)
(***************************************************************************)
EXTENDS Integers, Sequences, FiniteSets, TLC

KBBZ == "KBBZ"
PANIC == "PANIC"
T == "true"
F == "false"

\* Rust `a && b` / `a || b` over lookups that may panic: left operand first,
\* right operand only when the left one does not decide.
and_(a, b) == IF a = PANIC THEN PANIC ELSE IF a = F THEN F ELSE b
or_(a, b) == IF a = PANIC THEN PANIC ELSE IF a = T THEN T ELSE b

\* sheet[&key].contains(&x)
contains(sheet, key, x) ==
    IF key \notin DOMAIN sheet THEN PANIC
    ELSE IF x \in sheet[key] THEN T ELSE F

\* !sheet[&key].is_disjoint(&set)
intersects(sheet, key, set) ==
    IF key \notin DOMAIN sheet THEN PANIC
    ELSE IF sheet[key] \cap set # {} THEN T ELSE F

\* if cond { adrg_name } else { "KBBZ" }
ret(cond, adrg_name) ==
    IF cond = PANIC THEN PANIC ELSE IF cond = T THEN adrg_name ELSE KBBZ

Range(s) == {s[i] : i \in 1..Len(s)}

(***************************************************************************)
(* DrgCase                                                                 *)
(***************************************************************************)
\* age is the numerator of a fraction over AgeDenom years
AgeDenom == 36500000
NeonateLimit == 2901750

\* slip: the principal codes are left out of the derived sets
DrgCaseNew_without_principal(admission_number, principal_diagnosis, principal_operation, other_diagnosis, other_operation, gender, old, mass) ==
    [id |-> admission_number,
     main_dis |-> principal_diagnosis,
     main_opt |-> principal_operation,
     other_dis |-> other_diagnosis,
     other_opt |-> other_operation,
     sex |-> gender,
     age |-> old,
     weight |-> mass,
     all_dis |-> Range(other_diagnosis),
     all_opt |-> Range(other_operation)]

DrgCaseNew(admission_number, principal_diagnosis, principal_operation, other_diagnosis, other_operation, gender, old, mass) ==
    [id |-> admission_number,
     main_dis |-> principal_diagnosis,
     main_opt |-> principal_operation,
     other_dis |-> other_diagnosis,
     other_opt |-> other_operation,
     sex |-> gender,
     age |-> old,
     weight |-> mass,
     all_dis |-> Range(Append(other_diagnosis, principal_diagnosis)),
     all_opt |-> Range(Append(other_operation, principal_operation))]

\* slip: the emptiness test reads the procedure field
no_main_diagnosis_wrong_field(record) == record.main_opt = ""

no_main_diagnosis(record) == record.main_dis = ""
no_surgery(record) == record.main_opt = ""
is_vaild_surgrey(record, all_dis_list) == record.main_opt \in all_dis_list
tmp_other_dis_set(record) == Range(record.other_dis)

(***************************************************************************)
(* Rule-type predicates: each returns adrg_name, KBBZ or PANIC             *)
(***************************************************************************)
is_contain_main_opt(record, adrg_dis_opt, adrg_name) ==
    IF no_surgery(record) THEN KBBZ
    ELSE ret(contains(adrg_dis_opt, adrg_name, record.main_opt), adrg_name)

is_contain_opt_simultaneously(record, adrg_dis_opt, adrg_name) ==
    IF no_surgery(record) THEN KBBZ
    ELSE ret(and_(intersects(adrg_dis_opt, adrg_name \o "_normal_list", record.all_opt),
                  intersects(adrg_dis_opt, adrg_name \o "_other_list", record.all_opt)),
             adrg_name)

is_contain_other_dis_or_other_opt1_and_other_opt2(record, adrg_dis_opt, adrg_name) ==
    IF no_surgery(record) THEN KBBZ
    ELSE ret(and_(or_(intersects(adrg_dis_opt, adrg_name \o "_other_dis_list",
                                 tmp_other_dis_set(record)),
                      intersects(adrg_dis_opt, adrg_name \o "_other_opt_list1",
                                 record.all_opt)),
                  intersects(adrg_dis_opt, adrg_name \o "_other_opt_list2", record.all_opt)),
             adrg_name)

is_contain_main_dis_and_main_opt_simultaneously(record, adrg_dis_opt, adrg_name) ==
    IF no_surgery(record) THEN KBBZ
    ELSE ret(and_(contains(adrg_dis_opt, adrg_name \o "_contain_main_dis_list",
                           record.main_dis),
                  contains(adrg_dis_opt, adrg_name \o "_contain_main_opt_list",
                           record.main_opt)),
             adrg_name)

is_contain_main_dis(record, adrg_dis_opt, adrg_name) ==
    ret(contains(adrg_dis_opt, adrg_name, record.main_dis), adrg_name)

is_contain_cb4_opt_and_cb5_opt(record, adrg_dis_opt, adrg_name) ==
    IF no_surgery(record) THEN KBBZ
    ELSE ret(and_(intersects(adrg_dis_opt, "CB4", record.all_opt),
                  intersects(adrg_dis_opt, "CB5", record.all_opt)),
             adrg_name)

is_contain_cb5_opt_and_cb6_opt(record, adrg_dis_opt, adrg_name) ==
    IF no_surgery(record) THEN KBBZ
    ELSE ret(and_(intersects(adrg_dis_opt, "CB4", record.all_opt),
                  intersects(adrg_dis_opt, "CB5", record.all_opt)),
             adrg_name)

is_contain_multi_opt1(record, adrg_dis_opt, adrg_name) ==
    IF no_surgery(record) THEN KBBZ
    ELSE ret(or_(and_(contains(adrg_dis_opt, adrg_name \o "_main_dis_list", record.main_dis),
                      contains(adrg_dis_opt, adrg_name \o "_main_opt_list1", record.main_opt)),
             or_(contains(adrg_dis_opt, adrg_name \o "_main_opt_list2", record.main_opt),
                 and_(intersects(adrg_dis_opt, adrg_name \o "_other_opt_list3", record.all_opt),
                      intersects(adrg_dis_opt, adrg_name \o "_other_opt_list4", record.all_opt)))),
             adrg_name)

is_contain_multi_opt2(record, adrg_dis_opt, adrg_name) ==
    LET main_dis == contains(adrg_dis_opt, adrg_name \o "_main_dis_list", record.main_dis)
        opt(n) == intersects(adrg_dis_opt, adrg_name \o "_other_opt_list" \o n, record.all_opt)
    IN  IF no_surgery(record) THEN KBBZ
        ELSE ret(or_(and_(main_dis, and_(opt("1"), opt("2"))),
                 or_(and_(main_dis, and_(opt("1"), and_(opt("3"), opt("4")))),
                     and_(main_dis, and_(opt("4"), opt("5"))))),
                 adrg_name)

is_contain_multi_opt3(record, adrg_dis_opt, adrg_name) ==
    LET main_dis == contains(adrg_dis_opt, adrg_name \o "_main_dis_list", record.main_dis)
    IN  ret(or_(and_(main_dis,
                     contains(adrg_dis_opt, adrg_name \o "_main_opt_list1", record.main_opt)),
                and_(main_dis,
                     or_(contains(adrg_dis_opt, adrg_name \o "_other_opt_list2",
                                  record.main_opt),
                         intersects(adrg_dis_opt, adrg_name \o "_other_opt_list2",
                                    record.all_opt)))),
            adrg_name)

is_contain_multi_opt4(record, adrg_dis_opt, adrg_name) ==
    ret(or_(and_(contains(adrg_dis_opt, adrg_name \o "_main_dis_list1", record.main_dis),
                 contains(adrg_dis_opt, adrg_name \o "_main_opt_list", record.main_opt)),
            and_(contains(adrg_dis_opt, adrg_name \o "_main_dis_list2", record.main_dis),
                 and_(intersects(adrg_dis_opt, adrg_name \o "_other_dis_list",
                                 tmp_other_dis_set(record)),
                      contains(adrg_dis_opt, adrg_name \o "_main_opt_list",
                               record.main_opt)))),
        adrg_name)

is_contain_multi_opt5(record, adrg_dis_opt, adrg_name) ==
    IF no_surgery(record) THEN KBBZ
    ELSE ret(or_(and_(contains(adrg_dis_opt, adrg_name \o "_main_dis_list", record.main_dis),
                      and_(intersects(adrg_dis_opt, adrg_name \o "_other_dis_list1",
                                      tmp_other_dis_set(record)),
                           contains(adrg_dis_opt, adrg_name \o "_main_opt_list",
                                    record.main_opt))),
                 and_(intersects(adrg_dis_opt, adrg_name \o "_other_dis_list2",
                                 tmp_other_dis_set(record)),
                      contains(adrg_dis_opt, adrg_name \o "_main_opt_list", record.main_opt))),
             adrg_name)

is_contain_multi_wb_opt(record, adrg_dis_opt, adrg_name) ==
    IF no_surgery(record) THEN KBBZ
    ELSE ret(or_(contains(adrg_dis_opt, adrg_name \o "WB1_main_opt_list", record.main_opt),
             or_(contains(adrg_dis_opt, adrg_name \o "WB2_main_opt_list", record.main_opt),
                 contains(adrg_dis_opt, adrg_name \o "WB3_main_opt_list", record.main_opt))),
             adrg_name)

is_contain_other_dis(record, adrg_dis_opt, adrg_name) ==
    ret(intersects(adrg_dis_opt, adrg_name, tmp_other_dis_set(record)), adrg_name)

is_contain_dis(record, adrg_dis_opt, adrg_name) ==
    ret(and_(contains(adrg_dis_opt, adrg_name, record.main_dis),
             intersects(adrg_dis_opt, adrg_name, tmp_other_dis_set(record))),
        adrg_name)

is_contain_all_opt(record, all_opt, adrg_name) ==
    IF no_surgery(record) THEN KBBZ
    ELSE IF all_opt \cap record.all_opt # {} THEN adrg_name ELSE KBBZ

is_contain_dis_and_main_opt(record, adrg_dis_opt, adrg_name) ==
    ret(and_(intersects(adrg_dis_opt, adrg_name \o "_main_dis_list", record.all_dis),
             contains(adrg_dis_opt, adrg_name \o "_main_opt_list", record.main_opt)),
        adrg_name)

MdczSheets ==
    <<"belly_dis_sheet", "body_spine_dis_sheet", "chest_dis_sheet",
      "down_limb_dis_sheet", "genital_dis_sheet", "head_neck_dis_sheet",
      "pelvis_dis_sheet", "up_limb_dis_sheet", "urinary_dis_sheet">>

\* slip: one region is enough
is_mdcz_dis_one_region(record, mdcz_dis_opt, adrg_name) ==
    LET counter == Cardinality({i \in 1..Len(MdczSheets) :
                       mdcz_dis_opt[MdczSheets[i]] \cap record.all_dis # {}})
    IN  IF \E i \in 1..Len(MdczSheets) : MdczSheets[i] \notin DOMAIN mdcz_dis_opt
        THEN PANIC
        ELSE IF counter > 0 THEN adrg_name ELSE KBBZ

\* the for loop indexes every sheet, so any missing sheet panics
is_mdcz_dis(record, mdcz_dis_opt, adrg_name) ==
    LET counter == Cardinality({i \in 1..Len(MdczSheets) :
                       mdcz_dis_opt[MdczSheets[i]] \cap record.all_dis # {}})
    IN  IF \E i \in 1..Len(MdczSheets) : MdczSheets[i] \notin DOMAIN mdcz_dis_opt
        THEN PANIC
        ELSE IF counter > 1 THEN adrg_name ELSE KBBZ

\* slip: an unrecognised rule-type name aborts
process_adrg_unknown_aborts(record, adrg_dis_opt, all_opt_list, adrg_type_dict, adrg_name) ==
    IF adrg_name \notin DOMAIN adrg_type_dict THEN PANIC
    ELSE LET ty == adrg_type_dict[adrg_name] IN
      CASE ty = "is_contain_main_dis" -> is_contain_main_dis(record, adrg_dis_opt, adrg_name)
        [] ty = "is_contain_main_opt" -> is_contain_main_opt(record, adrg_dis_opt, adrg_name)
        [] ty = "is_contain_main_dis_and_main_opt_simultaneously" ->
             is_contain_main_dis_and_main_opt_simultaneously(record, adrg_dis_opt, adrg_name)
        [] ty = "is_contain_dis" -> is_contain_dis(record, adrg_dis_opt, adrg_name)
        [] ty = "is_contain_opt_simultaneously" ->
             is_contain_opt_simultaneously(record, adrg_dis_opt, adrg_name)
        [] ty = "is_contain_all_opt" -> is_contain_all_opt(record, all_opt_list, adrg_name)
        [] ty = "is_contain_multi_opt3" -> is_contain_multi_opt3(record, adrg_dis_opt, adrg_name)
        [] ty = "is_contain_other_dis" -> is_contain_other_dis(record, adrg_dis_opt, adrg_name)
        [] ty = "is_contain_multi_opt5" -> is_contain_multi_opt5(record, adrg_dis_opt, adrg_name)
        [] ty = "is_contain_other_dis_or_other_opt1_and_other_opt2" ->
             is_contain_other_dis_or_other_opt1_and_other_opt2(record, adrg_dis_opt, adrg_name)
        [] ty = "is_contain_cb4_opt_and_cb5_opt" ->
             is_contain_cb4_opt_and_cb5_opt(record, adrg_dis_opt, adrg_name)
        [] ty = "is_contain_cb5_opt_and_cb6_opt" ->
             is_contain_cb5_opt_and_cb6_opt(record, adrg_dis_opt, adrg_name)
        [] ty = "is_contain_multi_opt1" -> is_contain_multi_opt1(record, adrg_dis_opt, adrg_name)
        [] ty = "is_contain_multi_opt2" -> is_contain_multi_opt2(record, adrg_dis_opt, adrg_name)
        [] ty = "is_contain_multi_opt4" -> is_contain_multi_opt4(record, adrg_dis_opt, adrg_name)
        [] ty = "is_dis_and_main_opt" ->
             is_contain_dis_and_main_opt(record, adrg_dis_opt, adrg_name)
        [] ty = "is_contain_multi_wb_opt" ->
             is_contain_multi_wb_opt(record, adrg_dis_opt, adrg_name)
        [] ty = "is_mdcz_dis" -> is_mdcz_dis(record, adrg_dis_opt, adrg_name)
        [] OTHER -> PANIC

process_adrg(record, adrg_dis_opt, all_opt_list, adrg_type_dict, adrg_name) ==
    IF adrg_name \notin DOMAIN adrg_type_dict THEN PANIC
    ELSE LET ty == adrg_type_dict[adrg_name] IN
      CASE ty = "is_contain_main_dis" -> is_contain_main_dis(record, adrg_dis_opt, adrg_name)
        [] ty = "is_contain_main_opt" -> is_contain_main_opt(record, adrg_dis_opt, adrg_name)
        [] ty = "is_contain_main_dis_and_main_opt_simultaneously" ->
             is_contain_main_dis_and_main_opt_simultaneously(record, adrg_dis_opt, adrg_name)
        [] ty = "is_contain_dis" -> is_contain_dis(record, adrg_dis_opt, adrg_name)
        [] ty = "is_contain_opt_simultaneously" ->
             is_contain_opt_simultaneously(record, adrg_dis_opt, adrg_name)
        [] ty = "is_contain_all_opt" -> is_contain_all_opt(record, all_opt_list, adrg_name)
        [] ty = "is_contain_multi_opt3" -> is_contain_multi_opt3(record, adrg_dis_opt, adrg_name)
        [] ty = "is_contain_other_dis" -> is_contain_other_dis(record, adrg_dis_opt, adrg_name)
        [] ty = "is_contain_multi_opt5" -> is_contain_multi_opt5(record, adrg_dis_opt, adrg_name)
        [] ty = "is_contain_other_dis_or_other_opt1_and_other_opt2" ->
             is_contain_other_dis_or_other_opt1_and_other_opt2(record, adrg_dis_opt, adrg_name)
        [] ty = "is_contain_cb4_opt_and_cb5_opt" ->
             is_contain_cb4_opt_and_cb5_opt(record, adrg_dis_opt, adrg_name)
        [] ty = "is_contain_cb5_opt_and_cb6_opt" ->
             is_contain_cb5_opt_and_cb6_opt(record, adrg_dis_opt, adrg_name)
        [] ty = "is_contain_multi_opt1" -> is_contain_multi_opt1(record, adrg_dis_opt, adrg_name)
        [] ty = "is_contain_multi_opt2" -> is_contain_multi_opt2(record, adrg_dis_opt, adrg_name)
        [] ty = "is_contain_multi_opt4" -> is_contain_multi_opt4(record, adrg_dis_opt, adrg_name)
        [] ty = "is_dis_and_main_opt" ->
             is_contain_dis_and_main_opt(record, adrg_dis_opt, adrg_name)
        [] ty = "is_contain_multi_wb_opt" ->
             is_contain_multi_wb_opt(record, adrg_dis_opt, adrg_name)
        [] ty = "is_mdcz_dis" -> is_mdcz_dis(record, adrg_dis_opt, adrg_name)
        [] OTHER -> KBBZ

(***************************************************************************)
(* MDC checks                                                              *)
(***************************************************************************)
\* slip: the loop over the candidates has no break
RECURSIVE adrg_loop_no_break(_, _, _, _, _, _)
adrg_loop_no_break(record, adrg_dis_opt, all_opt_list, adrg_type_dict, adrg_list, pred) ==
    IF adrg_list = <<>> THEN pred
    ELSE LET p == process_adrg(record, adrg_dis_opt, all_opt_list, adrg_type_dict,
                               Head(adrg_list))
         IN  IF p = PANIC THEN PANIC
             ELSE adrg_loop_no_break(record, adrg_dis_opt, all_opt_list, adrg_type_dict,
                                     Tail(adrg_list), p)

\* for adrg in list { pred = process_adrg(.., adrg); if pred != "KBBZ" { break } }
\* pred keeps its previous value only when the list is empty
RECURSIVE adrg_loop(_, _, _, _, _, _)
adrg_loop(record, adrg_dis_opt, all_opt_list, adrg_type_dict, adrg_list, pred) ==
    IF adrg_list = <<>> THEN pred
    ELSE LET p == process_adrg(record, adrg_dis_opt, all_opt_list, adrg_type_dict,
                               Head(adrg_list))
         IN  IF p # KBBZ THEN p
             ELSE adrg_loop(record, adrg_dis_opt, all_opt_list, adrg_type_dict,
                            Tail(adrg_list), p)

MdcaAdrgList ==
    <<"AA1", "AA2", "AB1", "AC1", "AD1", "AE1", "AF1", "AG1", "AG2", "AG3", "AH1", "AH2">>

\* slip: the sub-groups are tried for a case without a principal procedure too
is_mdca_without_guard(record, adrg_dis_opt, all_opt_list, adrg_type_dict) ==
    adrg_loop(record, adrg_dis_opt, all_opt_list, adrg_type_dict, MdcaAdrgList, KBBZ)

is_mdca(record, adrg_dis_opt, all_opt_list, adrg_type_dict) ==
    IF no_surgery(record) THEN KBBZ
    ELSE adrg_loop(record, adrg_dis_opt, all_opt_list, adrg_type_dict, MdcaAdrgList, KBBZ)

is_mdcz(record, mdcz_dis_sheet) ==
    LET pred == is_mdcz_dis(record, mdcz_dis_sheet, "ZZ1")
    IN  IF pred = PANIC THEN PANIC ELSE IF pred = "ZZ1" THEN "MDCZ" ELSE KBBZ

is_mdcp(record) ==
    IF record.age <= NeonateLimit THEN "MDCP" ELSE KBBZ

is_mdcy(record, mdcy_dis_sheet) ==
    IF mdcy_dis_sheet \cap record.all_dis = {} THEN KBBZ ELSE "MDCY"

\* main_dis_sheet[&record.main_dis][0] == name, panicking on a missing key or an empty list
first_mdc_is(record, main_dis_sheet, name) ==
    IF record.main_dis \notin DOMAIN main_dis_sheet THEN PANIC
    ELSE IF main_dis_sheet[record.main_dis] = <<>> THEN PANIC
    ELSE IF main_dis_sheet[record.main_dis][1] = name THEN T ELSE F

is_mdcn(record, main_dis_sheet) ==
    LET c == and_(IF record.sex = 0 THEN T ELSE F,
                  first_mdc_is(record, main_dis_sheet, "MDCN"))
    IN  IF c = PANIC THEN PANIC ELSE IF c = T THEN "MDCY" ELSE KBBZ

is_mdcm(record, main_dis_sheet) ==
    LET c == and_(IF record.sex = 1 THEN T ELSE F,
                  first_mdc_is(record, main_dis_sheet, "MDCM"))
    IN  IF c = PANIC THEN PANIC ELSE IF c = T THEN "MDCY" ELSE KBBZ

\* called by process_mdc only; which_adrg does not call it
is_common_mdc(record, main_dis_sheet, mdc_name) ==
    LET c == first_mdc_is(record, main_dis_sheet, mdc_name)
    IN  IF c = PANIC THEN PANIC ELSE IF c = T THEN mdc_name ELSE KBBZ

(***************************************************************************)
(* QY reclassification                                                     *)
(***************************************************************************)
Internal == {"R", "S", "T", "U", "V", "W", "X", "Y", "Z"}

\* slip: the rewrite does not ask whether the principal procedure is valid
qy_judge_any_surgery(record, adrg_name, all_opt_list) ==
    IF adrg_name = KBBZ THEN KBBZ
    ELSE IF Len(adrg_name) < 2 THEN PANIC
    ELSE IF SubSeq(adrg_name, 2, 2) \in Internal
         THEN SubSeq(adrg_name, 1, 1) \o "QY"
         ELSE adrg_name

\* slip: the letters of the suffix are swapped
qy_judge_suffix_swapped(record, adrg_name, all_opt_list) ==
    IF adrg_name = KBBZ THEN KBBZ
    ELSE IF is_vaild_surgrey(record, all_opt_list)
         THEN IF Len(adrg_name) < 2 THEN PANIC
              ELSE IF SubSeq(adrg_name, 2, 2) \in Internal
                   THEN SubSeq(adrg_name, 1, 1) \o "YQ"
                   ELSE adrg_name
         ELSE adrg_name

qy_judge(record, adrg_name, all_opt_list) ==
    IF adrg_name = KBBZ THEN KBBZ
    ELSE IF is_vaild_surgrey(record, all_opt_list)
         THEN IF Len(adrg_name) < 2 THEN PANIC
              ELSE IF SubSeq(adrg_name, 2, 2) \in Internal
                   THEN SubSeq(adrg_name, 1, 1) \o "QY"
                   ELSE adrg_name
         ELSE adrg_name

(***************************************************************************)
(* DRG refinement                                                          *)
(***************************************************************************)
Digits == {"0", "1", "2", "3", "4", "5", "6", "7", "8", "9"}

\* x.chars().last().unwrap_or_default().to_digit(10): the trailing character
last_char(x) == IF Len(x) = 0 THEN "" ELSE SubSeq(x, Len(x), Len(x))

\* keys of drg_wait_dict (trailing digits of the registered codes)
drg_wait_keys(drg_list) == {last_char(drg_list[i]) : i \in 1..Len(drg_list)}

\* drg_wait_dict[&d]: collect() keeps the last code inserted under a key
drg_wait_get(drg_list, d) ==
    IF d \notin drg_wait_keys(drg_list) THEN PANIC
    ELSE drg_list[CHOOSE i \in 1..Len(drg_list) :
                     /\ last_char(drg_list[i]) = d
                     /\ \A j \in (i+1)..Len(drg_list) : last_char(drg_list[j]) # d]

\* record.other_dis.iter().map(|x| ccmcc_sheet.get(x)).filter(|x| !x.is_none())
RECURSIVE case_ccmcc(_, _)
case_ccmcc(other_dis, ccmcc_sheet) ==
    IF other_dis = <<>> THEN <<>>
    ELSE IF Head(other_dis) \in DOMAIN ccmcc_sheet
         THEN <<ccmcc_sheet[Head(other_dis)]>> \o case_ccmcc(Tail(other_dis), ccmcc_sheet)
         ELSE case_ccmcc(Tail(other_dis), ccmcc_sheet)

\* exclude_sheet.get(&record.main_dis).unwrap_or(&String::from(""))
exclude_of(record, exclude_sheet) ==
    IF record.main_dis \in DOMAIN exclude_sheet THEN exclude_sheet[record.main_dis] ELSE ""

\* slip: the exclusion comparison never matches
is_excluded_never(c, excl) == FALSE

\* &c.unwrap()[0] == exclude entry
is_excluded(c, excl) == c[1] = excl

\* slip: the scan does not stop at an MCC
RECURSIVE exclude_label_scan_no_break(_, _, _)
exclude_label_scan_no_break(ccs, excl, label) ==
    IF ccs = <<>> THEN label
    ELSE LET c == Head(ccs) IN
         IF Len(c) < 1 THEN PANIC
         ELSE IF is_excluded(c, excl)
              THEN exclude_label_scan_no_break(Tail(ccs), excl, label)
         ELSE IF Len(c) < 2 THEN PANIC
         ELSE exclude_label_scan_no_break(Tail(ccs), excl, c[2])

\* two-code branch: label of the scan over case_ccmcc
RECURSIVE exclude_label_scan(_, _, _)
exclude_label_scan(ccs, excl, label) ==
    IF ccs = <<>> THEN label
    ELSE LET c == Head(ccs) IN
         IF Len(c) < 1 THEN PANIC
         ELSE IF is_excluded(c, excl) THEN exclude_label_scan(Tail(ccs), excl, label)
         ELSE IF Len(c) < 2 THEN PANIC
         ELSE IF c[2] = "MCC" THEN "MCC"
         ELSE exclude_label_scan(Tail(ccs), excl, c[2])

\* three-code branch: label of the scan over case_ccmcc
RECURSIVE high_ccmcc_label_scan(_, _, _)
high_ccmcc_label_scan(ccs, excl, label) ==
    IF ccs = <<>> THEN label
    ELSE LET c == Head(ccs) IN
         IF Len(c) < 1 THEN PANIC
         ELSE IF is_excluded(c, excl) THEN high_ccmcc_label_scan(Tail(ccs), excl, label)
         ELSE IF Len(c) < 2 THEN PANIC
         ELSE IF c[2] = "MCC" THEN "MCC"
         ELSE high_ccmcc_label_scan(Tail(ccs), excl, c[1])

\* slip: the sole code looked up under the baseline digit
select_single_baseline(drg_list) == drg_wait_get(drg_list, "5")

\* drg_wait_dict.len() == 1
select_single(drg_list) == drg_wait_get(drg_list, "9")

\* slip: a CC elevates in a 1/5 split
select_two_cc_elevates(drg_list, ccs, excl) ==
    LET keys == drg_wait_keys(drg_list) IN
    IF ccs = <<>> THEN drg_wait_get(drg_list, "5")
    ELSE LET exclude_label == exclude_label_scan(ccs, excl, "exclude") IN
         IF exclude_label = PANIC THEN PANIC
         ELSE IF exclude_label \in {"MCC", "CC"} THEN
             IF "1" \in keys THEN drg_wait_get(drg_list, "1")
             ELSE drg_wait_get(drg_list, "3")
         ELSE drg_wait_get(drg_list, "5")

\* drg_wait_dict.len() == 2
select_two(drg_list, ccs, excl) ==
    LET keys == drg_wait_keys(drg_list) IN
    IF ccs = <<>> THEN drg_wait_get(drg_list, "5")
    ELSE LET exclude_label == exclude_label_scan(ccs, excl, "exclude") IN
         IF exclude_label = PANIC THEN PANIC
         ELSE IF exclude_label = "MCC" THEN
             IF "1" \in keys THEN drg_wait_get(drg_list, "1")
             ELSE drg_wait_get(drg_list, "3")
         ELSE IF exclude_label = "CC" THEN
             IF "1" \in keys THEN drg_wait_get(drg_list, "5")
             ELSE drg_wait_get(drg_list, "3")
         ELSE drg_wait_get(drg_list, "5")

\* slip: the branch without a counting CC/MCC leaves the placeholder
select_three_placeholder(drg_list, ccs, excl) ==
    LET high_ccmcc_label == high_ccmcc_label_scan(ccs, excl, "exclude") IN
    IF high_ccmcc_label = PANIC THEN PANIC
    ELSE IF high_ccmcc_label = "MCC" THEN drg_wait_get(drg_list, "1")
    ELSE IF high_ccmcc_label = "CC" THEN
        IF Cardinality(drg_wait_keys(drg_list)) = 3 THEN drg_wait_get(drg_list, "3")
        ELSE drg_wait_get(drg_list, "1")
    ELSE KBBZ

\* the final else: three codes (or none)
select_three(drg_list, ccs, excl) ==
    LET high_ccmcc_label == high_ccmcc_label_scan(ccs, excl, "exclude") IN
    IF high_ccmcc_label = PANIC THEN PANIC
    ELSE IF high_ccmcc_label = "MCC" THEN drg_wait_get(drg_list, "1")
    ELSE IF high_ccmcc_label = "CC" THEN
        IF Cardinality(drg_wait_keys(drg_list)) = 3 THEN drg_wait_get(drg_list, "3")
        ELSE drg_wait_get(drg_list, "1")
    ELSE drg_wait_get(drg_list, "5")

\* process_drg past the early return
refine_drg(record, adrg_name, ccmcc_sheet, exclude_sheet, adrg_drg_name_sheet) ==
    IF adrg_name \notin DOMAIN adrg_drg_name_sheet THEN PANIC
    ELSE LET drg_list == adrg_drg_name_sheet[adrg_name]
             keys == drg_wait_keys(drg_list)
             ccs == case_ccmcc(record.other_dis, ccmcc_sheet)
             excl == exclude_of(record, exclude_sheet)
         IN  IF ~(keys \subseteq Digits) THEN PANIC
             ELSE IF Cardinality(keys) = 1 THEN select_single(drg_list)
             ELSE IF Cardinality(keys) = 2 THEN select_two(drg_list, ccs, excl)
             ELSE select_three(drg_list, ccs, excl)

\* slip: only "KBBZ" returns early, a QY code goes on to the lookup
process_drg_qy_refined(record, adrg_name, ccmcc_sheet, exclude_sheet, adrg_drg_name_sheet) ==
    IF adrg_name = KBBZ THEN adrg_name
    ELSE refine_drg(record, adrg_name, ccmcc_sheet, exclude_sheet, adrg_drg_name_sheet)

process_drg(record, adrg_name, ccmcc_sheet, exclude_sheet, adrg_drg_name_sheet) ==
    IF adrg_name = KBBZ THEN adrg_name
    ELSE IF Len(adrg_name) < 3 THEN PANIC
    ELSE IF SubSeq(adrg_name, 2, 3) = "QY" THEN adrg_name
    ELSE refine_drg(record, adrg_name, ccmcc_sheet, exclude_sheet, adrg_drg_name_sheet)

(***************************************************************************)
(* Rule tables: the bundles a run may have loaded                          *)
(***************************************************************************)
EmptyFn == [k \in {} |-> {}]

\* contents.split(',') collected into a set: the fields between the commas, an
\* empty field included (empty contents, a trailing comma, two commas in a row)
RECURSIVE split_comma(_, _, _)
split_comma(contents, i, start) ==
    IF i > Len(contents) THEN {SubSeq(contents, start, Len(contents))}
    ELSE IF SubSeq(contents, i, i) = ","
         THEN {SubSeq(contents, start, i - 1)} \cup split_comma(contents, i + 1, i + 1)
         ELSE split_comma(contents, i + 1, start)

read_icd9_to_vec(contents) == split_comma(contents, 1, 1)

MdczSheet1 ==
    [k \in Range(MdczSheets) |->
        IF k = "belly_dis_sheet" THEN {"d2", "d3"}
        ELSE IF k = "chest_dis_sheet" THEN {"z1"}
        ELSE IF k = "head_neck_dis_sheet" THEN {"c1"}
        ELSE {}]

AdrgDisOpt1 ==
    [k \in (Range(MdcaAdrgList) \ {"AA1"}) |-> {}]
    @@ ("AA1" :> {"p2"}) @@ ("BB1" :> {"p1"}) @@ ("BR1" :> {"d1"})
    @@ ("CB1" :> {"p1"}) @@ ("CR1" :> {"d2"}) @@ ("PR1" :> {"d1", "d2"})
    @@ ("YR1" :> {"d1", "d4"}) @@ ("ZZ1" :> {}) @@ ("NR1" :> {"d4"})
    @@ ("CD1_main_dis_list" :> {"d2"}) @@ ("CD1_main_opt_list1" :> {"p4"})
    @@ ("CD1_other_opt_list2" :> {"p1"}) @@ ("CD1_other_opt_list3" :> {"p2"})
    @@ ("CB4" :> {"p4"}) @@ ("CB5" :> {"p1"}) @@ ("CB6" :> {"p3"})

AdrgType1 ==
    [k \in Range(MdcaAdrgList) |-> "is_contain_main_opt"]
    @@ ("BB1" :> "is_contain_main_opt") @@ ("BR1" :> "is_contain_main_dis")
    @@ ("CB1" :> "is_contain_main_opt") @@ ("CR1" :> "is_contain_main_dis")
    @@ ("PR1" :> "is_contain_main_dis") @@ ("YR1" :> "is_contain_main_dis")
    @@ ("ZZ1" :> "is_mdcz_dis") @@ ("NR1" :> "is_contain_main_dis")
    @@ ("CD1" :> "is_contain_multi_opt3") @@ ("CJ1" :> "is_contain_main_dis_list")
    @@ ("CB2" :> "is_contain_cb4_opt_and_cb5_opt")
    @@ ("CB3" :> "is_contain_cb5_opt_and_cb6_opt")

\* a complete bundle: every key the rule types and the MDC walk ask for is present
Tables1 ==
    [adrg_dis_opt |-> AdrgDisOpt1 @@ MdczSheet1,
     all_opt_list |-> read_icd9_to_vec("p1,p2,p3"),
     main_dis_sheet |-> ("d1" :> <<"MDCB">>) @@ ("d2" :> <<"MDCB", "MDCC">>)
                        @@ ("d3" :> <<"MDCZ">>) @@ ("d4" :> <<"MDCN">>),
     adrg_type_dict |-> AdrgType1,
     mdcz_dis_sheet |-> MdczSheet1,
     mdcy_dis_sheet |-> {"c2"},
     mdc_sub_adrg |-> ("MDCB" :> <<"BB1", "BR1">>)
                      @@ ("MDCC" :> <<"CB1", "CB2", "CB3", "CD1", "CJ1", "CR1">>)
                      @@ ("MDCP" :> <<"PR1">>) @@ ("MDCY" :> <<"YR1">>)
                      @@ ("MDCZ" :> <<"ZZ1">>) @@ ("MDCN" :> <<"NR1">>)
                      @@ ("MDCM" :> <<"NR1">>),
     ccmcc_sheet |-> ("m1" :> <<"t1", "MCC">>) @@ ("c1" :> <<"t2", "CC">>)
                     @@ ("c2" :> <<"t1", "CC">>),
     exclude_sheet |-> ("d1" :> "t2"),
     adrg_drg_name_sheet |->
        ("AA1" :> <<"AA19">>) @@ ("BB1" :> <<"BB11", "BB13", "BB15">>)
        @@ ("BR1" :> <<"BR11", "BR15">>) @@ ("CB1" :> <<"CB13", "CB15">>)
        @@ ("CR1" :> <<"CR11", "CR13", "CR15">>) @@ ("PR1" :> <<"PR19">>)
        @@ ("YR1" :> <<"YR13", "YR15">>) @@ ("ZZ1" :> <<"ZZ11", "ZZ15">>)
        @@ ("CD1" :> <<"CD19">>) @@ ("NR1" :> <<"NR19">>)
        @@ ("CB2" :> <<"CB29">>) @@ ("CB3" :> <<"CB39">>)]

\* nothing loaded: every table lookup fails
Tables2 ==
    [adrg_dis_opt |-> EmptyFn, all_opt_list |-> {}, main_dis_sheet |-> EmptyFn,
     adrg_type_dict |-> EmptyFn, mdcz_dis_sheet |-> EmptyFn, mdcy_dis_sheet |-> {},
     mdc_sub_adrg |-> EmptyFn, ccmcc_sheet |-> EmptyFn, exclude_sheet |-> EmptyFn,
     adrg_drg_name_sheet |-> EmptyFn]

\* other MDCA sub-groups; BX1 is typed below but has no entry here
AdrgDisOpt3 ==
    ("AA1" :> {}) @@ ("AA2" :> {"p2"}) @@ ("AC1" :> {"p2"}) @@ ("AH2" :> {"d3"})
    @@ AdrgDisOpt1

AdrgType3 ==
    ("AH2" :> "is_contain_main_dis") @@ ("BX1" :> "is_contain_main_opt") @@ AdrgType1

\* the ADRG table without the region sheets and without BX1's set, other
\* splits and exclusions
Tables3 ==
    [Tables1 EXCEPT
       !.adrg_dis_opt = AdrgDisOpt3,
       !.adrg_type_dict = AdrgType3,
       !.main_dis_sheet = ("d1" :> <<"MDCB">>) @@ ("d2" :> <<"MDCC", "MDCB">>)
                          @@ ("d3" :> <<"MDCZ">>) @@ ("d4" :> <<"MDCM">>),
       !.mdc_sub_adrg = ("MDCB" :> <<"BB1", "BR1", "BX1">>) @@ Tables1.mdc_sub_adrg,
       !.exclude_sheet = ("d1" :> "t1") @@ ("d2" :> "t2"),
       !.adrg_drg_name_sheet =
          ("AA2" :> <<"AA29">>) @@ ("AH2" :> <<"AH29">>) @@ ("BB1" :> <<"BB11", "BB15">>)
          @@ ("BR1" :> <<"BR11", "BR13", "BR15">>) @@ ("CB1" :> <<"CB19">>)
          @@ ("CR1" :> <<"CR13", "CR15">>) @@ ("PR1" :> <<"PR11", "PR13", "PR15">>)
          @@ ("YR1" :> <<"YR19">>) @@ ("ZZ1" :> <<"ZZ19">>) @@ ("CD1" :> <<"CD19">>)
          @@ ("NR1" :> <<"NR19">>) @@ ("CB2" :> <<"CB29">>) @@ ("CB3" :> <<"CB39">>)]

\* the complete bundle with a valid-procedure file that ends in a comma
Tables4 ==
    [Tables1 EXCEPT !.all_opt_list = read_icd9_to_vec("p1,p2,p3,")]

TableBundles == {Tables1, Tables2, Tables3, Tables4}
SelfConsistent == {Tables1}

(***************************************************************************)
(* Cases                                                                   *)
(***************************************************************************)
MaxOtherDis == 2
MaxOtherOpt == 1

MainDis == {"", "d1", "d2", "d3", "d4", "d9"}
MainOpt == {"", "p1", "p2", "p3", "p4"}
OtherDis == {"m1", "c1", "c2", "z1"}
OtherOpt == {"p1"}
Sexes == {0, 1}
Ages == {2900000, 2901020, 2920000, 730000000}

SeqsUpTo(S, n) == UNION {[1..k -> S] : k \in 0..n}

Cases ==
    {DrgCaseNew("0001", md, mo, od, oo, sx, ag, 2288) :
        md \in MainDis, mo \in MainOpt, od \in SeqsUpTo(OtherDis, MaxOtherDis),
        oo \in SeqsUpTo(OtherOpt, MaxOtherOpt), sx \in Sexes, ag \in Ages}

(***************************************************************************)
(* which_adrg, one iteration of `for mdc in target_mdc_list`               *)
(***************************************************************************)
pre_mdc == <<"MDCA", "MDCP", "MDCY", "MDCZ">>

\* for adrg in mdc_sub_adrg[&key].clone() { ... }
sub_adrg_loop(record, tb, key, pred) ==
    IF key \notin DOMAIN tb.mdc_sub_adrg THEN PANIC
    ELSE adrg_loop(record, tb.adrg_dis_opt, tb.all_opt_list, tb.adrg_type_dict,
                   tb.mdc_sub_adrg[key], pred)

\* a special category: pm is the check's answer, the candidates run when pm = want
claimed_branch(record, tb, pm, want, pa) ==
    IF pm = PANIC THEN [pred_adrg |-> PANIC, pred_mdc |-> pm, brk |-> FALSE]
    ELSE IF pm = want
         THEN [pred_adrg |-> sub_adrg_loop(record, tb, pm, pa), pred_mdc |-> pm,
               brk |-> FALSE]
         ELSE [pred_adrg |-> pa, pred_mdc |-> pm, brk |-> FALSE]

\* the loop body for category mdc; brk is the `break` of the outer loop
mdc_body(record, tb, mdc, pa, pm) ==
    IF mdc = "MDCA" THEN
        LET r == is_mdca(record, tb.adrg_dis_opt, tb.all_opt_list, tb.adrg_type_dict)
        IN  [pred_adrg |-> r, pred_mdc |-> pm, brk |-> r # KBBZ]
    ELSE IF mdc = "MDCP" THEN claimed_branch(record, tb, is_mdcp(record), "MDCP", pa)
    ELSE IF mdc = "MDCY" THEN
        claimed_branch(record, tb, is_mdcy(record, tb.mdcy_dis_sheet), "MDCY", pa)
    ELSE IF mdc = "MDCZ" THEN
        claimed_branch(record, tb, is_mdcz(record, tb.mdcz_dis_sheet), "MDCZ", pa)
    ELSE IF mdc = "MDCN" THEN
        claimed_branch(record, tb, is_mdcn(record, tb.main_dis_sheet), "MDCN", pa)
    ELSE IF mdc = "MDCM" THEN
        claimed_branch(record, tb, is_mdcm(record, tb.main_dis_sheet), "MDCM", pa)
    ELSE [pred_adrg |-> sub_adrg_loop(record, tb, mdc, pa), pred_mdc |-> pm,
          brk |-> FALSE]

\* the whole `for mdc in target_mdc_list` from position i on
RECURSIVE mdc_walk(_, _, _, _, _, _)
mdc_walk(record, tb, list, i, pa, pm) ==
    IF i > Len(list) THEN pa
    ELSE LET r == mdc_body(record, tb, list[i], pa, pm)
         IN  IF r.pred_adrg = PANIC THEN PANIC
             ELSE IF r.brk THEN r.pred_adrg
             ELSE mdc_walk(record, tb, list, i + 1, r.pred_adrg, r.pred_mdc)

\* which_adrg as one call
which_adrg(record, tb) ==
    IF no_main_diagnosis(record) THEN KBBZ
    ELSE IF record.main_dis \notin DOMAIN tb.main_dis_sheet THEN PANIC
    ELSE LET pa == mdc_walk(record, tb, pre_mdc \o tb.main_dis_sheet[record.main_dis],
                            1, KBBZ, KBBZ)
         IN  IF pa = PANIC THEN PANIC ELSE qy_judge(record, pa, tb.all_opt_list)

\* which_adrg(..).unwrap() then process_drg(..).unwrap()
single_drg_process(drgcase, tb) ==
    LET result_adrg_ == which_adrg(drgcase, tb)
    IN  IF result_adrg_ = PANIC THEN PANIC
        ELSE process_drg(drgcase, result_adrg_, tb.ccmcc_sheet, tb.exclude_sheet,
                         tb.adrg_drg_name_sheet)

(***************************************************************************)
(* Output rows                                                             *)
(***************************************************************************)
\* Vec<String>::join(sep)
RECURSIVE join(_, _)
join(list, sep) ==
    IF list = <<>> THEN ""
    ELSE IF Len(list) = 1 THEN list[1]
    ELSE list[1] \o sep \o join(Tail(list), sep)

DrgCaseGroupedNew(drgcase, code) ==
    [id |-> drgcase.id,
     main_dis |-> drgcase.main_dis,
     main_opt |-> drgcase.main_opt,
     other_dis |-> join(drgcase.other_dis, "|"),
     other_opt |-> join(drgcase.other_opt, "|"),
     sex |-> ToString(drgcase.sex),
     age |-> ToString(drgcase.age),
     weight |-> ToString(drgcase.weight),
     code |-> code]

\* no output file exists
NoFile == "no file"

\* slip: the rows are written last to first
write_csv_reversed(drgcases) ==
    [i \in 1..Len(drgcases) |-> drgcases[Len(drgcases) + 1 - i]]

\* the rows of the file write_csv creates: one per element, in order
write_csv(drgcases) == drgcases

\* slip: the locals of which_adrg are not set up anew for a call
which_adrg_entry_stale(mdc_i_, pred_adrg_, pred_mdc_) ==
    [mdc_i |-> mdc_i_, pred_adrg |-> pred_adrg_, pred_mdc |-> pred_mdc_]

\* the locals of which_adrg at the start of a call; the arguments are what
\* the previous call left behind
which_adrg_entry(mdc_i_, pred_adrg_, pred_mdc_) ==
    [mdc_i |-> 1, pred_adrg |-> KBBZ, pred_mdc |-> KBBZ]

\* slip: the loop over the batch ends after its first case
batch_done_after_first(case_vec_, i) == i > 1 \/ i > Len(case_vec_)

\* `for case in case_vec` has run out of cases
batch_done(case_vec_, i) == i > Len(case_vec_)

(***************************************************************************)
(* State: one case evaluated by which_adrg and then process_drg, alone or  *)
(* as the current case of batch_drg_process                                *)
(***************************************************************************)
VARIABLES record, tables, pc, target_mdc_list, mdc_i, pred_adrg, pred_mdc,
          result_adrg, result_drg, case_vec, case_i, drg_grouped_vec, out_file

batch_vars == <<case_vec, case_i, drg_grouped_vec, out_file>>

vars == <<record, tables, pc, target_mdc_list, mdc_i, pred_adrg, pred_mdc,
          result_adrg, result_drg, case_vec, case_i, drg_grouped_vec, out_file>>

Init ==
    /\ record \in Cases
    /\ tables \in TableBundles
    /\ pc = "which_adrg"
    /\ target_mdc_list = <<>>
    /\ mdc_i = 1
    /\ pred_adrg = KBBZ
    /\ pred_mdc = KBBZ
    /\ result_adrg = ""
    /\ result_drg = ""
    /\ case_vec = <<>>
    /\ case_i = 0
    /\ drg_grouped_vec = <<>>
    /\ out_file = NoFile

\* which_adrg up to the start of the loop
WhichAdrgEnter ==
    /\ pc = "which_adrg"
    /\ IF no_main_diagnosis(record)
       THEN /\ result_adrg' = KBBZ
            /\ pc' = "process_drg"
            /\ UNCHANGED target_mdc_list
       ELSE IF record.main_dis \notin DOMAIN tables.main_dis_sheet
       THEN /\ pc' = "panic"
            /\ UNCHANGED <<result_adrg, target_mdc_list>>
       ELSE /\ target_mdc_list' = pre_mdc \o tables.main_dis_sheet[record.main_dis]
            /\ pc' = "mdc_loop"
            /\ UNCHANGED result_adrg
    /\ UNCHANGED <<record, tables, mdc_i, pred_adrg, pred_mdc, result_drg>>
    /\ UNCHANGED batch_vars

\* one iteration of the loop over target_mdc_list
MdcIter ==
    /\ pc = "mdc_loop"
    /\ mdc_i <= Len(target_mdc_list)
    /\ LET r == mdc_body(record, tables, target_mdc_list[mdc_i], pred_adrg, pred_mdc)
       IN  /\ pred_adrg' = r.pred_adrg
           /\ pred_mdc' = r.pred_mdc
           /\ mdc_i' = mdc_i + 1
           /\ pc' = IF r.pred_adrg = PANIC THEN "panic"
                    ELSE IF r.brk \/ mdc_i = Len(target_mdc_list) THEN "qy_judge"
                    ELSE "mdc_loop"
    /\ UNCHANGED <<record, tables, target_mdc_list, result_adrg, result_drg>>
    /\ UNCHANGED batch_vars

\* pred_adrg = qy_judge(record, pred_adrg, all_opt_list); Ok(pred_adrg)
QyJudge ==
    /\ pc = "qy_judge"
    /\ LET r == qy_judge(record, pred_adrg, tables.all_opt_list)
       IN  /\ pred_adrg' = r
           /\ result_adrg' = IF r = PANIC THEN result_adrg ELSE r
           /\ pc' = IF r = PANIC THEN "panic" ELSE "process_drg"
    /\ UNCHANGED <<record, tables, target_mdc_list, mdc_i, pred_mdc, result_drg>>
    /\ UNCHANGED batch_vars

ProcessDrg ==
    /\ pc = "process_drg"
    /\ LET r == process_drg(record, result_adrg, tables.ccmcc_sheet, tables.exclude_sheet,
                            tables.adrg_drg_name_sheet)
       IN  /\ result_drg' = IF r = PANIC THEN result_drg ELSE r
           /\ pc' = IF r = PANIC THEN "panic" ELSE "done"
    /\ UNCHANGED <<record, tables, target_mdc_list, mdc_i, pred_adrg, pred_mdc,
                   result_adrg>>
    /\ UNCHANGED batch_vars

Next == WhichAdrgEnter \/ MdcIter \/ QyJudge \/ ProcessDrg

Spec == Init /\ [][Next]_vars

TypeOK ==
    /\ record \in Cases
    /\ tables \in TableBundles
    /\ pc \in {"which_adrg", "mdc_loop", "qy_judge", "process_drg", "done", "panic"}

(***************************************************************************)
(* batch_drg_process: the cases of case_vec one after the other, then      *)
(* write_csv                                                               *)
(***************************************************************************)
MaxBatch == 3

BatchCases ==
    {DrgCaseNew("0001", "d1", "", <<"m1">>, <<>>, 0, 730000000, 2288),
     DrgCaseNew("0002", "d2", "p2", <<>>, <<"p1">>, 1, 730000000, 2288),
     DrgCaseNew("0003", "d9", "p1", <<>>, <<>>, 0, 730000000, 2288),
     DrgCaseNew("0004", "", "", <<"c1">>, <<>>, 1, 2900000, 2288),
     DrgCaseNew("0005", "d1", "p3", <<"c2", "m1">>, <<>>, 0, 730000000, 2288),
     DrgCaseNew("0006", "d3", "", <<"z1">>, <<>>, 1, 730000000, 2288)}

BatchBundles == {Tables1, Tables3}

\* the loop variable before the first iteration
NoCase == DrgCaseNew("", "", "", <<>>, <<>>, 0, 0, 0)

BatchInit ==
    /\ case_vec \in SeqsUpTo(BatchCases, MaxBatch)
    /\ tables \in BatchBundles
    /\ record = NoCase
    /\ pc = "batch_loop"
    /\ target_mdc_list = <<>>
    /\ mdc_i = 1
    /\ pred_adrg = KBBZ
    /\ pred_mdc = KBBZ
    /\ result_adrg = ""
    /\ result_drg = ""
    /\ case_i = 1
    /\ drg_grouped_vec = <<>>
    /\ out_file = NoFile

\* the next case of the loop enters which_adrg
BatchTake ==
    /\ pc = "batch_loop"
    /\ ~batch_done(case_vec, case_i)
    /\ record' = case_vec[case_i]
    /\ LET e == which_adrg_entry(mdc_i, pred_adrg, pred_mdc)
       IN  /\ mdc_i' = e.mdc_i
           /\ pred_adrg' = e.pred_adrg
           /\ pred_mdc' = e.pred_mdc
    /\ target_mdc_list' = <<>>
    /\ result_adrg' = ""
    /\ result_drg' = ""
    /\ pc' = "which_adrg"
    /\ UNCHANGED <<tables, batch_vars>>

\* drg_grouped_vec.push(DrgCaseGrouped::new(case, result_drg))
BatchPush ==
    /\ pc = "done"
    /\ drg_grouped_vec' = Append(drg_grouped_vec, DrgCaseGroupedNew(record, result_drg))
    /\ case_i' = case_i + 1
    /\ pc' = "batch_loop"
    /\ UNCHANGED <<record, tables, target_mdc_list, mdc_i, pred_adrg, pred_mdc,
                   result_adrg, result_drg, case_vec, out_file>>

\* write_csv(drg_grouped_vec, out_file_path) after the loop
WriteCsv ==
    /\ pc = "batch_loop"
    /\ batch_done(case_vec, case_i)
    /\ out_file' = write_csv(drg_grouped_vec)
    /\ pc' = "written"
    /\ UNCHANGED <<record, tables, target_mdc_list, mdc_i, pred_adrg, pred_mdc,
                   result_adrg, result_drg, case_vec, case_i, drg_grouped_vec>>

BatchNext ==
    BatchTake \/ WhichAdrgEnter \/ MdcIter \/ QyJudge \/ ProcessDrg \/ BatchPush
    \/ WriteCsv

BatchSpec == BatchInit /\ [][BatchNext]_vars

(***************************************************************************)
(* Properties                                                              *)
(***************************************************************************)
\* which_adrg has returned and process_drg has run (returned or aborted)
ProcessDrgRan == pc \in {"done", "panic"} /\ result_adrg # ""

\* the ADRG is one process_drg refines
Refined == result_adrg # "" /\ result_adrg # KBBZ /\ SubSeq(result_adrg, 2, 3) # "QY"

\* DRG codes registered under the final ADRG, and their trailing digits
Registered ==
    IF result_adrg \in DOMAIN tables.adrg_drg_name_sheet
    THEN {tables.adrg_drg_name_sheet[result_adrg][i] :
             i \in 1..Len(tables.adrg_drg_name_sheet[result_adrg])}
    ELSE {}
Ending(x) == SubSeq(x, Len(x), Len(x))
Endings == {Ending(x) : x \in Registered}
CodeEnding(d) == CHOOSE x \in Registered : Ending(x) = d

\* the exclusion-table entry of the principal diagnosis ("" when absent)
ExclusionEntry ==
    IF record.main_dis \in DOMAIN tables.exclude_sheet
    THEN tables.exclude_sheet[record.main_dis] ELSE ""
OtherDisSet == {record.other_dis[i] : i \in 1..Len(record.other_dis)}
Excluded(d) == d \in DOMAIN tables.ccmcc_sheet /\ tables.ccmcc_sheet[d][1] = ExclusionEntry
Surviving == {d \in OtherDisSet : d \in DOMAIN tables.ccmcc_sheet /\ ~Excluded(d)}
Severity ==
    IF \E d \in Surviving : tables.ccmcc_sheet[d][2] = "MCC" THEN "major"
    ELSE IF \E d \in Surviving : tables.ccmcc_sheet[d][2] = "CC" THEN "minor"
    ELSE "none"

\* the match of the first category of the list that yields one
RECURSIVE FirstClaimMatch(_, _, _)
FirstClaimMatch(rec, tb, lst) ==
    IF lst = <<>> THEN KBBZ
    ELSE LET r == mdc_body(rec, tb, Head(lst), KBBZ, KBBZ).pred_adrg
         IN  IF r # KBBZ THEN r ELSE FirstClaimMatch(rec, tb, Tail(lst))

\* C1: the walk over the priority list stops at the first category whose
\* candidates yield a match, so the ADRG handed to the QY step is that first
\* match; no later category replaces it or resets it to "KBBZ".
C1_QyGetsFirstMatch ==
    pc = "qy_judge" => pred_adrg = FirstClaimMatch(record, tables, target_mdc_list)

\* C2: with self-consistent rule tables, which_adrg followed by process_drg
\* never aborts, whatever the case's principal diagnosis and other fields.
C2_NeverAborts ==
    tables \in SelfConsistent => pc # "panic"

\* C3: a case with an empty principal diagnosis gets "KBBZ" from which_adrg and
\* from process_drg under any rule tables: the MDC walk and the QY step are
\* never entered and nothing aborts.
C3_EmptyMainDis ==
    record.main_dis = "" =>
        /\ pc \in {"which_adrg", "process_drg", "done"}
        /\ pc \in {"process_drg", "done"} => result_adrg = KBBZ
        /\ pc = "done" => result_drg = KBBZ

C3_Witness ==
    /\ pc = "done" /\ record.main_dis = "" /\ result_drg = KBBZ
    /\ record.main_opt # "" /\ record.other_dis # <<>>
    /\ tables.main_dis_sheet = EmptyFn

\* C5: with three registered codes ending 1, 3 and 5, process_drg returns the
\* code ending 1 for major severity, 3 for minor, 5 for none.
C5_ThreeCodeSplit ==
    (ProcessDrgRan /\ Refined /\ Cardinality(Registered) = 3
       /\ Endings = {"1", "3", "5"}) =>
        /\ pc = "done"
        /\ result_drg = CodeEnding(IF Severity = "major" THEN "1"
                                   ELSE IF Severity = "minor" THEN "3" ELSE "5")

C7_SingleCode ==
    (ProcessDrgRan /\ Refined /\ Cardinality(Registered) = 1) =>
        /\ pc = "done"
        /\ result_drg \in Registered

C7_Witness ==
    /\ pc = "done" /\ Refined /\ Registered = {result_drg}
    /\ Severity = "major"

\* the case without its excluded other diagnoses
RECURSIVE DropExcluded(_)
DropExcluded(ds) ==
    IF ds = <<>> THEN <<>>
    ELSE IF Excluded(Head(ds)) THEN DropExcluded(Tail(ds))
    ELSE <<Head(ds)>> \o DropExcluded(Tail(ds))

\* C8: removing every excluded other diagnosis from the case leaves the DRG
\* returned by process_drg unchanged.
C8_ExcludedDoNotCount ==
    (pc = "done" /\ Refined) =>
        result_drg = process_drg([record EXCEPT !.other_dis = DropExcluded(record.other_dis)],
                                 result_adrg, tables.ccmcc_sheet, tables.exclude_sheet,
                                 tables.adrg_drg_name_sheet)

C8_Witness ==
    /\ pc = "done" /\ Refined /\ Cardinality(Registered) >= 2
    /\ \E d \in OtherDisSet : Excluded(d) /\ tables.ccmcc_sheet[d][2] = "MCC"
    /\ Severity = "minor"

\* C9: for "KBBZ" and for a QY code process_drg returns the ADRG verbatim and
\* cannot abort on a table lookup.
C9_VerbatimNoRefinement ==
    (ProcessDrgRan /\ ~Refined) => (pc = "done" /\ result_drg = result_adrg)

C9_Witness ==
    /\ pc = "done" /\ result_adrg # KBBZ /\ SubSeq(result_adrg, 2, 3) = "QY"
    /\ result_adrg \notin DOMAIN tables.adrg_drg_name_sheet
    /\ result_drg = result_adrg

\* C10: qy_judge rewrites the ADRG to first character + "QY" exactly when it is
\* not "KBBZ", the principal procedure is in the valid-procedure set and the
\* second character is one of R..Z; otherwise the ADRG is returned unchanged.
C10_QyJudgeIff ==
    [][pc = "qy_judge" =>
         pred_adrg' =
            IF /\ pred_adrg # KBBZ
               /\ record.main_opt \in tables.all_opt_list
               /\ SubSeq(pred_adrg, 2, 2) \in {"R", "S", "T", "U", "V", "W", "X", "Y", "Z"}
            THEN SubSeq(pred_adrg, 1, 1) \o "QY"
            ELSE pred_adrg]_vars

C10_Witness ==
    /\ pc = "process_drg" /\ pred_adrg = "BQY" /\ result_adrg = "BQY"
    /\ record.main_opt \in tables.all_opt_list

\* the category the loop is about to evaluate
CurrentMdc ==
    IF pc = "mdc_loop" /\ mdc_i <= Len(target_mdc_list) THEN target_mdc_list[mdc_i] ELSE ""

\* categories which_adrg handles by a branch of their own
SpecialMdc == {"MDCA", "MDCP", "MDCY", "MDCZ", "MDCN", "MDCM"}

\* C11: a case without a principal procedure is never rewritten to a QY code by
\* qy_judge, whatever the ADRG and whatever the loaded valid-procedure set holds.
C11_NoProcedureNeverQy ==
    [][(pc = "qy_judge" /\ record.main_opt = "") => pred_adrg' = pred_adrg]_vars

\* C12: the Neonate check claims a case exactly when its age is at most 29/365
\* of a year: 29/365 is claimed, any greater age (0.07948, 0.08) is not.
C12_NeonateIffAge ==
    (pc = "mdc_loop" /\ mdc_i = 3) =>
        (pred_mdc = "MDCP" <=> record.age <= 29 * (AgeDenom \div 365))

\* the region sets of the Multi-region table that hold a diagnosis of the case
RegionsHit ==
    {i \in 1..Len(MdczSheets) :
        tables.mdcz_dis_sheet[MdczSheets[i]] \cap record.all_dis # {}}

\* C13: the Multi-region check claims a case exactly when its diagnoses meet
\* strictly more than one of the nine region sets.
C13_MultiRegionIff ==
    (mdc_i = 5 /\ Range(MdczSheets) \subseteq DOMAIN tables.mdcz_dis_sheet) =>
        (pred_mdc = "MDCZ" <=> Cardinality(RegionsHit) > 1)

C13_Witness ==
    /\ mdc_i = 5 /\ pc = "mdc_loop" /\ pred_mdc = "MDCZ" /\ pred_adrg = "ZZ1"
    /\ record.main_dis = "d1" /\ Cardinality(RegionsHit) = 2

\* C14: a table-declared category that is not the first one listed for the
\* principal diagnosis never claims the case: none of its candidates is
\* evaluated, so the walk's ADRG is left as it was.
C14_GenericOnlyWhenFirst ==
    [][(/\ CurrentMdc # "" /\ CurrentMdc \notin SpecialMdc
        /\ is_common_mdc(record, tables.main_dis_sheet, CurrentMdc) # CurrentMdc)
       => pred_adrg' = pred_adrg]_vars

\* C15: for a female case whose entry names MDCN first, or a male case whose
\* entry names MDCM first, the walk evaluates the candidate list of MDCY when
\* it comes to that category.
C15_SexRedirect ==
    [][(\/ /\ CurrentMdc = "MDCN" /\ record.sex = 0
           /\ tables.main_dis_sheet[record.main_dis][1] = "MDCN"
        \/ /\ CurrentMdc = "MDCM" /\ record.sex = 1
           /\ tables.main_dis_sheet[record.main_dis][1] = "MDCM")
       => pred_adrg' = sub_adrg_loop(record, tables, "MDCY", pred_adrg)]_vars

\* the positions of the fixed MDCA list whose sub-group matches the case
MdcaMatches ==
    {i \in 1..Len(MdcaAdrgList) :
        process_adrg(record, tables.adrg_dis_opt, tables.all_opt_list,
                     tables.adrg_type_dict, MdcaAdrgList[i]) # KBBZ}

\* C16: Category A claims a case exactly when it has a principal procedure and
\* one of the twelve fixed sub-groups matches; the ADRG is then the first
\* matching sub-group of the fixed order and no other category is evaluated.
C16_CategoryA ==
    (mdc_i = 2 /\ pc \in {"mdc_loop", "qy_judge"}) =>
        IF record.main_opt # "" /\ MdcaMatches # {}
        THEN /\ pc = "qy_judge"
             /\ pred_mdc = KBBZ
             /\ pred_adrg =
                  MdcaAdrgList[CHOOSE i \in MdcaMatches : \A j \in MdcaMatches : i <= j]
        ELSE pc = "mdc_loop" /\ pred_adrg = KBBZ

C16_Witness ==
    /\ mdc_i = 2 /\ pc = "qy_judge" /\ pred_adrg = "AA2"
    /\ Cardinality(MdcaMatches) = 2

\* rule types whose condition involves procedures
ProcedureRuleTypes ==
    {"is_contain_main_opt", "is_contain_main_dis_and_main_opt_simultaneously",
     "is_contain_opt_simultaneously", "is_contain_all_opt", "is_contain_multi_opt1",
     "is_contain_multi_opt2", "is_contain_multi_opt3", "is_contain_multi_opt4",
     "is_contain_multi_opt5", "is_contain_other_dis_or_other_opt1_and_other_opt2",
     "is_contain_cb4_opt_and_cb5_opt", "is_contain_cb5_opt_and_cb6_opt",
     "is_dis_and_main_opt", "is_contain_multi_wb_opt"}

\* C17: a case without a principal procedure is never matched by a candidate
\* whose rule type involves procedures, even when its other procedures meet the
\* candidate's procedure sets.
C17_NoProcedureNoSurgicalMatch ==
    (record.main_opt = "" /\ pred_adrg \in DOMAIN tables.adrg_type_dict) =>
        tables.adrg_type_dict[pred_adrg] \notin ProcedureRuleTypes

\* rule types that look up the set stored under the candidate's own name
KeyedOnName ==
    {"is_contain_main_opt", "is_contain_main_dis", "is_contain_other_dis",
     "is_contain_dis"}

\* the candidate's rule type needs a set the ADRG table does not hold
LacksKey(adrg) ==
    /\ adrg \in DOMAIN tables.adrg_type_dict
    /\ tables.adrg_type_dict[adrg] \in KeyedOnName
    /\ adrg \notin DOMAIN tables.adrg_dis_opt

\* the candidates before position k of the list all answer "KBBZ"
ReachedAt(list, k) ==
    \A j \in 1..(k - 1) :
        process_adrg(record, tables.adrg_dis_opt, tables.all_opt_list,
                     tables.adrg_type_dict, list[j]) = KBBZ

\* C18: evaluating a candidate whose rule type needs a table key the tables
\* lack aborts, for every case; it never answers "KBBZ" silently.
C18_MissingKeyAborts ==
    [][(/\ CurrentMdc # "" /\ CurrentMdc \notin SpecialMdc
        /\ CurrentMdc \in DOMAIN tables.mdc_sub_adrg
        /\ \E k \in 1..Len(tables.mdc_sub_adrg[CurrentMdc]) :
              /\ LacksKey(tables.mdc_sub_adrg[CurrentMdc][k])
              /\ ReachedAt(tables.mdc_sub_adrg[CurrentMdc], k))
       => pc' = "panic"]_vars

\* the rule-type names process_adrg dispatches on
RecognisedRuleTypes ==
    ProcedureRuleTypes \cup
    {"is_contain_main_dis", "is_contain_dis", "is_contain_other_dis", "is_mdcz_dis"}

\* C19: for a candidate whose rule-type name is not recognised process_adrg
\* answers "KBBZ" for every case and does not abort.
C19_UnrecognisedType ==
    \A adrg \in DOMAIN tables.adrg_type_dict :
        tables.adrg_type_dict[adrg] \notin RecognisedRuleTypes =>
            process_adrg(record, tables.adrg_dis_opt, tables.all_opt_list,
                         tables.adrg_type_dict, adrg) = KBBZ

C19_Witness ==
    /\ pc = "qy_judge" /\ pred_adrg = "CR1"
    /\ tables.mdc_sub_adrg["MDCC"] = <<"CB1", "CB2", "CB3", "CD1", "CJ1", "CR1">>
    /\ tables.adrg_type_dict["CJ1"] \notin RecognisedRuleTypes

\* C20: the rule type is_mdcz_dis reached through process_adrg decides as the
\* Multi-region check does: a candidate of that type matches exactly when
\* is_mdcz claims the case from the Multi-region table.
C20_SameRegionSets ==
    mdc_i >= 5 =>
        \A adrg \in DOMAIN tables.adrg_type_dict :
            tables.adrg_type_dict[adrg] = "is_mdcz_dis" =>
                (process_adrg(record, tables.adrg_dis_opt, tables.all_opt_list,
                              tables.adrg_type_dict, adrg) = adrg
                 <=> is_mdcz(record, tables.mdcz_dis_sheet) = "MDCZ")

\* C21: a batch of N cases that batch_drg_process carries through gives N rows
\* in the order of the cases; row i has the fields of case i and one code, the
\* code computed for case i.
C21_BatchOrder ==
    pc = "written" =>
        /\ Len(out_file) = Len(case_vec)
        /\ \A i \in 1..Len(case_vec) :
              /\ out_file[i] = DrgCaseGroupedNew(case_vec[i], out_file[i].code)
              /\ out_file[i].code = single_drg_process(case_vec[i], tables)

C21_Witness ==
    /\ pc = "written" /\ Len(case_vec) = 3 /\ Len(out_file) = 3
    /\ case_vec[1].id # case_vec[2].id /\ case_vec[2].id # case_vec[3].id
    /\ out_file[1].code # out_file[2].code /\ out_file[1].code # out_file[3].code

\* C22: evaluating a case changes neither the rule tables nor the case, and
\* the code a case gets in a batch is the code it gets alone, whatever cases
\* were evaluated before it.
C22_CasesIndependent ==
    [][/\ tables' = tables
       /\ case_vec' = case_vec
       /\ pc \in {"which_adrg", "mdc_loop", "qy_judge", "process_drg", "done"}
            => record' = record
       /\ (pc = "done" /\ pc' = "batch_loop")
            => drg_grouped_vec'[Len(drg_grouped_vec')].code
                 = single_drg_process(record, tables)]_vars

C22_Witness ==
    /\ pc = "batch_loop" /\ Len(drg_grouped_vec) = 3
    /\ case_vec[1] = case_vec[3] /\ case_vec[1] # case_vec[2]
    /\ drg_grouped_vec[1].code = drg_grouped_vec[3].code
    /\ drg_grouped_vec[1].code # drg_grouped_vec[2].code

\* a list last to first
Reverse(list) == [i \in 1..Len(list) |-> list[Len(list) + 1 - i]]

\* the same codes in another order and with duplicates
Rearranged(list) == {Reverse(list), list \o list, list \o Reverse(list)}

\* C23: all_dis is exactly the principal diagnosis together with the other
\* diagnoses, all_opt the principal procedure together with the other
\* procedures; the order of the other lists and duplicates in them make no
\* difference.
C23_DerivedSets ==
    /\ record.all_dis = {record.main_dis} \cup {record.other_dis[i] : i \in 1..Len(record.other_dis)}
    /\ record.all_opt = {record.main_opt} \cup {record.other_opt[i] : i \in 1..Len(record.other_opt)}
    /\ \A od \in Rearranged(record.other_dis), oo \in Rearranged(record.other_opt) :
          LET c == DrgCaseNew(record.id, record.main_dis, record.main_opt, od, oo,
                              record.sex, record.age, record.weight)
          IN  c.all_dis = record.all_dis /\ c.all_opt = record.all_opt

C23_Witness ==
    /\ pc = "done" /\ Len(record.other_dis) = 2
    /\ record.other_dis[1] # record.other_dis[2]
    /\ Cardinality(record.all_dis) = 3
    /\ record.other_opt = <<record.main_opt>> /\ Cardinality(record.all_opt) = 1

\* the candidate list the loop body is about to run through, <<>> when none
CandidateList ==
    IF CurrentMdc = "" \/ CurrentMdc \in {"MDCA", "MDCN", "MDCM"} THEN <<>>
    ELSE IF CurrentMdc \notin DOMAIN tables.mdc_sub_adrg THEN <<>>
    ELSE IF CurrentMdc = "MDCP" /\ is_mdcp(record) # "MDCP" THEN <<>>
    ELSE IF CurrentMdc = "MDCY" /\ is_mdcy(record, tables.mdcy_dis_sheet) # "MDCY" THEN <<>>
    ELSE IF CurrentMdc = "MDCZ" /\ is_mdcz(record, tables.mdcz_dis_sheet) # "MDCZ" THEN <<>>
    ELSE tables.mdc_sub_adrg[CurrentMdc]

\* the answer of the candidate at position k
AnswerAt(list, k) ==
    process_adrg(record, tables.adrg_dis_opt, tables.all_opt_list,
                 tables.adrg_type_dict, list[k])

\* the positions whose candidate does not answer "KBBZ"
Answering(list) == {k \in 1..Len(list) : AnswerAt(list, k) # KBBZ}

\* C24: a category's candidates are evaluated in list order up to the first
\* one that succeeds, which is the list's outcome; no later candidate is
\* evaluated; when none succeeds the outcome is "KBBZ".
C24_FirstCandidateWins ==
    [][CandidateList # <<>> =>
         IF Answering(CandidateList) = {} THEN pred_adrg' = KBBZ
         ELSE pred_adrg' =
                AnswerAt(CandidateList,
                         CHOOSE k \in Answering(CandidateList) :
                            \A j \in Answering(CandidateList) : k <= j)]_vars

C24_Witness ==
    /\ pc = "qy_judge" /\ pred_adrg = "CB2" /\ target_mdc_list[mdc_i - 1] = "MDCC"
    /\ Cardinality(Answering(tables.mdc_sub_adrg["MDCC"])) >= 3

\* C25: is_contain_multi_opt3 matches exactly when the principal diagnosis is
\* in "_main_dis_list" and either the principal procedure is in
\* "_main_opt_list1" or the case's procedures meet both "_other_opt_list2" and
\* "_other_opt_list3".
C25_MultiOpt3Iff ==
    pc = "qy_judge" =>
    \A adrg \in DOMAIN tables.adrg_type_dict :
        (/\ tables.adrg_type_dict[adrg] = "is_contain_multi_opt3"
         /\ {adrg \o "_main_dis_list", adrg \o "_main_opt_list1",
             adrg \o "_other_opt_list2", adrg \o "_other_opt_list3"}
               \subseteq DOMAIN tables.adrg_dis_opt)
        => (process_adrg(record, tables.adrg_dis_opt, tables.all_opt_list,
                         tables.adrg_type_dict, adrg) = adrg
            <=> /\ record.main_dis \in tables.adrg_dis_opt[adrg \o "_main_dis_list"]
                /\ \/ record.main_opt \in tables.adrg_dis_opt[adrg \o "_main_opt_list1"]
                   \/ /\ record.all_opt \cap tables.adrg_dis_opt[adrg \o "_other_opt_list2"] # {}
                      /\ record.all_opt \cap tables.adrg_dis_opt[adrg \o "_other_opt_list3"] # {})

\* C26: is_contain_cb5_opt_and_cb6_opt matches exactly when the case has a
\* principal procedure and its procedures meet both the "CB5" set and the
\* "CB6" set.
C26_Cb5Cb6Iff ==
    pc = "qy_judge" =>
    \A adrg \in DOMAIN tables.adrg_type_dict :
        (/\ tables.adrg_type_dict[adrg] = "is_contain_cb5_opt_and_cb6_opt"
         /\ {"CB4", "CB5", "CB6"} \subseteq DOMAIN tables.adrg_dis_opt)
        => (process_adrg(record, tables.adrg_dis_opt, tables.all_opt_list,
                         tables.adrg_type_dict, adrg) = adrg
            <=> /\ record.main_opt # ""
                /\ record.all_opt \cap tables.adrg_dis_opt["CB5"] # {}
                /\ record.all_opt \cap tables.adrg_dis_opt["CB6"] # {})

\* the orderings of a list
Perms(list) ==
    {[i \in 1..Len(list) |-> list[f[i]]] :
        f \in {g \in [1..Len(list) -> 1..Len(list)] :
                  \A i, j \in 1..Len(list) : i # j => g[i] # g[j]}}

\* the case with other lists od and oo
WithOthers(od, oo) ==
    DrgCaseNew(record.id, record.main_dis, record.main_opt, od, oo, record.sex,
               record.age, record.weight)

\* C27: the final DRG is the same for every ordering of the other diagnoses
\* and of the other procedures.
C27_OrderOfOthers ==
    pc = "done" =>
        /\ \A od \in Perms(record.other_dis), oo \in Perms(record.other_opt) :
              single_drg_process(WithOthers(od, oo), tables) = result_drg
        /\ \A x \in {"p3", "p4"} :
              \A od \in Perms(record.other_dis), oo \in Perms(record.other_opt \o <<x>>) :
                 single_drg_process(WithOthers(od, oo), tables)
                   = single_drg_process(WithOthers(record.other_dis,
                                                   record.other_opt \o <<x>>), tables)

C27_Witness ==
    /\ pc = "done" /\ Refined /\ Cardinality(Registered) = 2
    /\ Len(record.other_dis) = 2 /\ ~Excluded(record.other_dis[1])
    /\ ~Excluded(record.other_dis[2])
    /\ record.other_dis[1] \in DOMAIN tables.ccmcc_sheet
    /\ record.other_dis[2] \in DOMAIN tables.ccmcc_sheet
    /\ tables.ccmcc_sheet[record.other_dis[1]][2] = "MCC"
    /\ tables.ccmcc_sheet[record.other_dis[2]][2] = "CC"
    /\ Ending(result_drg) = "1"

\* C28: when process_drg refines and returns, the DRG is one of the codes
\* registered under the ADRG; the placeholder "KBBZ" is not returned.
C28_RegisteredCode ==
    (pc = "done" /\ Refined) => (result_drg \in Registered /\ result_drg # KBBZ)

C28_Witness ==
    /\ pc = "done" /\ Refined /\ Cardinality(Registered) = 3
    /\ Severity = "none" /\ Ending(result_drg) = "5"

\* C29: qy_judge applied to a code it returned gives that code again, and a
\* code it rewrote is returned verbatim by process_drg.
C29_QyTerminal ==
    [][pc = "qy_judge" =>
         /\ qy_judge(record, pred_adrg', tables.all_opt_list) = pred_adrg'
         /\ pred_adrg' # pred_adrg =>
              process_drg(record, pred_adrg', tables.ccmcc_sheet, tables.exclude_sheet,
                          tables.adrg_drg_name_sheet) = pred_adrg']_vars

C29_Witness ==
    /\ pc = "done" /\ pred_adrg = "CQY" /\ result_drg = "CQY"
    /\ record.other_dis # <<>>

\* C30: the output is written only after every case of the batch has been
\* evaluated; when a case aborts nothing is written, the rows of the cases
\* before it included.
C30_WriteAfterAll ==
    /\ out_file # NoFile => (pc = "written" /\ Len(drg_grouped_vec) = Len(case_vec))
    /\ pc = "panic" => out_file = NoFile

C30_Witness ==
    /\ pc = "panic" /\ Len(drg_grouped_vec) = 2 /\ case_i = 3
    /\ out_file = NoFile

====
